---- MODULE Spec2Model ----
(***************************************************************************)
(* TLS file transfer: SecureNetFileXferClient.py (send_file, __main__) and *)
(* SecureNetFileXferServer.py (receive_data, start_server, __main__).      *)
(*                                                                         *)
(* One client process at a time talks to the serial server over one        *)
(* connection.  The connection's client-to-server direction is the byte    *)
(* sequence `sent`, of which the server has consumed the first `rdPos`     *)
(* bytes.  A recv returns any non-empty prefix of what is available, up to *)
(* its buffer size (a stream socket keeps no message boundaries).  The     *)
(* transport's failures (accept, handshake, read, write, shutdown) are     *)
(* choices of the environment.                                             *)
(***************************************************************************)
EXTENDS Integers, Sequences, FiniteSets, TLC

\* ---------------------------------------------------------------- bounds
\* The 1024-byte buffer of file.read / recv, scaled down.
CHUNK == 2
\* Longest source file, in bytes.
MaxFileLen == 5
\* Client processes served one after the other by the server loop.
MaxSessions == 2
\* Consecutive expirations of the select wait that are told apart.
MaxPolls == 2
\* Consecutive SSLWantReadError retries that are told apart.
MaxRetries == 1

\* ------------------------------------------------------- program constants
HeaderLen == 4
PortMin == 1024
PortMax == 65535

ClientChunk == CHUNK
RecvMax == CHUNK
HdrRecvMax == CHUNK

\* ------------------------------------------------------------ byte strings
Min(a, b) == IF a < b THEN a ELSE b

Prefix(s, n) == SubSeq(s, 1, n)

Drop(s, n) == SubSeq(s, n + 1, Len(s))

\* (mutant) the length written least significant byte first
ToBytes4Little(n) ==
    << n % 256, (n \div 256) % 256, (n \div 65536) % 256, (n \div 16777216) % 256 >>

\* int.to_bytes(4, byteorder='big')
ToBytes4(n) ==
    << (n \div 16777216) % 256, (n \div 65536) % 256, (n \div 256) % 256, n % 256 >>

\* int.from_bytes(b, byteorder='big')
RECURSIVE FromBytes(_)
FromBytes(b) ==
    IF b = << >> THEN 0
    ELSE 256 * FromBytes(Prefix(b, Len(b) - 1)) + b[Len(b)]

\* Characters of file names; "eacute" stands for U+00E9.
EncodeChar(c) ==
    CASE c = "a" -> << 97 >>
      [] c = "d" -> << 100 >>
      [] c = "/" -> << 47 >>
      [] c = "eacute" -> << 195, 169 >>

\* str.encode(): UTF-8
RECURSIVE Encode(_)
Encode(s) ==
    IF s = << >> THEN << >> ELSE EncodeChar(Head(s)) \o Encode(Tail(s))

\* bytes.decode(): <<TRUE, chars>>, or <<FALSE, <<>>>> for UnicodeDecodeError
RECURSIVE Decode(_)
Decode(b) ==
    IF b = << >> THEN << TRUE, << >> >>
    ELSE LET one == CASE b[1] = 97 -> << 1, "a" >>
                      [] b[1] = 100 -> << 1, "d" >>
                      [] b[1] = 47 -> << 1, "/" >>
                      [] b[1] = 195 /\ Len(b) >= 2 /\ b[2] = 169 -> << 2, "eacute" >>
                      [] OTHER -> << 0, "" >>
         IN  IF one[1] = 0 THEN << FALSE, << >> >>
             ELSE LET rest == Decode(Drop(b, one[1]))
                  IN  IF rest[1] THEN << TRUE, << one[2] >> \o rest[2] >>
                      ELSE << FALSE, << >> >>

\* (mutant) the path sent as it was given
BasenameWholePath(p) == p

\* file_path.split('/')[-1]
RECURSIVE Basename(_)
Basename(p) ==
    IF p = << >> THEN << >>
    ELSE IF p[Len(p)] = "/" THEN << >>
    ELSE Basename(Prefix(p, Len(p) - 1)) \o << p[Len(p)] >>

HasSeparator(s) == \E i \in 1..Len(s) : s[i] = "/"

\* (mutant) a read that returns one byte less than asked for
ReadChunkShort(content, off) ==
    SubSeq(content, off + 1, Min(Len(content), off + ClientChunk - 1))

\* file.read(1024) at offset off
ReadChunk(content, off) == SubSeq(content, off + 1, Min(Len(content), off + ClientChunk))

\* (bytes_sent / file_size) * 100, printed with one decimal: tenths of a percent
\* (rounded to the nearest tenth)
Progress(bytesSent, fileSize) == (bytesSent * 2000 + fileSize) \div (2 * fileSize)

\* ------------------------------------------------------------------ inputs
\* Paths of existing regular files given to send_file, and their contents.
FilePaths == { << "a" >>, << "d", "/", "a" >>, << "eacute" >> }

\* Contents: S pairwise distinct bytes for every S, and runs of zero bytes.
Content(S) == [i \in 1..S |-> i]

FileContents == { Content(S) : S \in 0..MaxFileLen } \cup { << 0 >> }

\* Every content is sent under the plain name; a file of one full chunk and
\* one byte is also sent under the other paths.
ContentsFor(path) ==
    IF path = << "a" >> THEN FileContents ELSE { Content(CHUNK + 1) }

\* What a peer that is not send_file writes before it closes: a short length,
\* a short name, an undecodable name, an empty name, a name with a separator,
\* and a well-formed frame.
RogueStreams ==
    { << 0, 0 >>, << 0, 0, 0, 2, 97 >>, << 0, 0, 0, 1, 255 >>, << 0, 0, 0, 0 >>,
      << 0, 0, 0, 1, 47 >>, << 0, 0, 0, 1, 97, 7 >> }

\* Exceptions the transport raises from a read and from a write.
IOErrors == { "ConnectionError", "SSLError", "timeout" }

SendErrors == { "ConnectionError", "timeout" }

\* ------------------------------------------------------------------- state
VARIABLES
    \* the client process (send_file)
    peer,            \* "client": send_file; "rogue": some other TLS peer
    file_path, fileExists, fileContent,
    cPc,
    cRaw,            \* client_socket: "none", "open", "detached", "finalized"
    cSecure,         \* secure_socket: "unbound", "open", "closed"
    file_size, bytes_sent,
    progress,        \* the last progress report, in tenths of a percent; -1: none
    sendSizes,       \* sizes of the payload writes made
    cReport,         \* what the client printed about the outcome
    cExc,            \* the exception that ended send_file's try block, if any
    cShut,           \* the client's pending shutdown attempt: "none", "ok", "failed"
    cRel,            \* times the client released its connection
    \* the connection
    tcp,             \* "none", "pending" (in the listen backlog), "accepted"
    sent,            \* every byte written by the peer, in order
    rdPos,           \* bytes of sent the server's recv calls have returned
    peerClosed,      \* the peer's end is closed
    \* the server (start_server)
    sPc,
    client_socket,   \* 0: not in locals(); else the session it was accepted for
    secure_client,   \* likewise
    sOpen,           \* accepted connections not yet released
    relCount,        \* per connection: times the server side released it
    staleClose,      \* a close() call met a socket whose connection was released
    data,            \* receive_data's accumulator
    file_name_length, file_name,
    sink,            \* the file opened at line 77: "none", "open", "closed"
    sinkName, sinkContent,
    polls,           \* consecutive expirations of the select wait, in the loop
    retries,         \* consecutive SSLWantReadError retries, in a read loop
    recvSizes,       \* sizes of the non-empty payload recv results
    sReport,         \* what the server printed about the receive
    sEvent,          \* what ended the receive
    sShut,           \* the server's pending shutdown attempt in finally
    srvLog,          \* steps of the current loop iteration
    sessions,        \* client processes started so far
    \* the two programs' __main__ blocks
    prog,            \* "client" or "server"
    argcOk,          \* len(sys.argv) is the expected count
    argPort,         \* the port argument, a string
    mPc,
    port,            \* int(argument), once parsed
    mReport,         \* what __main__ printed, or the exception that ended it
    server_socket    \* "none", "listening"

clientVars == << peer, file_path, fileExists, fileContent, cPc, cRaw, cSecure,
                 file_size, bytes_sent, progress, sendSizes, cReport, cExc, cShut, cRel >>

connVars == << tcp, sent, rdPos, peerClosed >>

serverVars == << sPc, client_socket, secure_client, sOpen, relCount, staleClose,
                 data, file_name_length, file_name, sink, sinkName, sinkContent,
                 polls, retries, recvSizes, sReport, sEvent, sShut, srvLog >>

cliVars == << prog, argcOk, argPort, mPc, port, mReport, server_socket >>

vars == << clientVars, connVars, serverVars, sessions, cliVars >>

Sessions == 1..MaxSessions

Avail == Len(sent) - rdPos

\* The state of both processes and of the connection before any client runs.
Idle ==
    /\ peer = "client" /\ file_path = << >> /\ fileExists = FALSE
    /\ fileContent = << >>
    /\ cPc = "idle" /\ cRaw = "none" /\ cSecure = "unbound"
    /\ file_size = 0 /\ bytes_sent = 0 /\ progress = -1 /\ sendSizes = << >>
    /\ cReport = "none" /\ cExc = "none" /\ cShut = "none" /\ cRel = 0
    /\ tcp = "none" /\ sent = << >> /\ rdPos = 0 /\ peerClosed = FALSE
    /\ client_socket = 0 /\ secure_client = 0
    /\ sOpen = {} /\ relCount = [c \in Sessions |-> 0] /\ staleClose = FALSE
    /\ data = << >> /\ file_name_length = 0 /\ file_name = << >>
    /\ sink = "none" /\ sinkName = << >> /\ sinkContent = << >>
    /\ polls = 0 /\ retries = 0 /\ recvSizes = << >>
    /\ sReport = "none" /\ sEvent = "none" /\ sShut = "none" /\ srvLog = << >>
    /\ sessions = 0

\* The server has been started on a valid port and is in its accept loop;
\* clients are started with a valid port.
Init ==
    /\ Idle
    /\ sPc = "s_accept"
    /\ prog = "server" /\ argcOk = TRUE /\ argPort = << "1", "0", "2", "4" >>
    /\ mPc = "m_called" /\ port = PortMin /\ mReport = "none"
    /\ server_socket = "listening"

\* ----------------------------------------------------------- client process
\* A client process is started once the server is back at accept: the
\* observations of the session before it are cleared, the server's locals
\* client_socket and secure_client are kept.
NewClient ==
    /\ cPc \in { "idle", "c_done", "c_raised" }
    /\ sPc = "s_accept" /\ tcp # "pending"
    /\ sessions < MaxSessions
    /\ sessions' = sessions + 1
    /\ \E k \in { "client", "rogue" }, p \in FilePaths, ex \in BOOLEAN :
         \E c \in IF k = "client" /\ ex THEN ContentsFor(p) ELSE { << >> } :
            /\ k = "rogue" => (ex /\ p = << "a" >>)
            /\ peer' = k /\ file_path' = p /\ fileExists' = ex /\ fileContent' = c
            /\ cPc' = IF k = "client" THEN "c_start" ELSE "r_connect"
    /\ cRaw' = "none" /\ cSecure' = "unbound"
    /\ file_size' = 0 /\ bytes_sent' = 0 /\ progress' = -1 /\ sendSizes' = << >>
    /\ cReport' = "none" /\ cExc' = "none" /\ cShut' = "none" /\ cRel' = 0
    /\ tcp' = "none" /\ sent' = << >> /\ rdPos' = 0 /\ peerClosed' = FALSE
    /\ data' = << >> /\ file_name_length' = 0 /\ file_name' = << >>
    /\ sink' = "none" /\ sinkName' = << >> /\ sinkContent' = << >>
    /\ polls' = 0 /\ retries' = 0 /\ recvSizes' = << >>
    /\ sReport' = "none" /\ sEvent' = "none" /\ sShut' = "none" /\ srvLog' = << >>
    /\ UNCHANGED << sPc, client_socket, secure_client, sOpen, relCount,
                    staleClose, cliVars >>

\* except ssl.SSLError / except ConnectionError / except Exception
ClientCatch(exc) ==
    CASE exc = "SSLError" -> "SSL Error"
      [] exc = "ConnectionError" -> "Connection error"
      [] OTHER -> "Error"

\* an exception raised inside send_file's try block
ClientRaise(exc) ==
    /\ cReport' = ClientCatch(exc)
    /\ cExc' = exc
    /\ cPc' = "c_finally"

\* (mutant) the existence check left out
FileFoundUnchecked == TRUE

\* os.path.exists(file_path)
FileFound == fileExists

\* assert os.path.exists(file_path), "File not found."
ClientCheckFile ==
    /\ cPc = "c_start"
    /\ IF FileFound
         THEN cPc' = "c_socket" /\ UNCHANGED << cReport, cExc >>
         ELSE cPc' = "c_raised" /\ cReport' = "AssertionError"
              /\ cExc' = "AssertionError"
    /\ UNCHANGED << peer, file_path, fileExists, fileContent, cRaw, cSecure,
                    file_size, bytes_sent, progress, sendSizes, cShut, cRel >>
    /\ UNCHANGED << connVars, serverVars, sessions, cliVars >>

\* client_socket = socket.socket(...); settimeout(30)
ClientSocket ==
    /\ cPc = "c_socket"
    /\ cRaw' = "open"
    /\ cPc' = "c_wrap"
    /\ UNCHANGED << peer, file_path, fileExists, fileContent, cSecure, file_size,
                    bytes_sent, progress, sendSizes, cReport, cExc, cShut, cRel >>
    /\ UNCHANGED << connVars, serverVars, sessions, cliVars >>

\* create_default_context() and context.wrap_socket(client_socket, ...):
\* the SSL socket takes the descriptor over; a failure leaves secure_socket
\* unassigned and the descriptor unclosed
ClientWrap ==
    /\ cPc = "c_wrap"
    /\ \/ /\ cRaw' = "detached" /\ cSecure' = "open" /\ cPc' = "c_connect"
          /\ UNCHANGED << cReport, cExc >>
       \/ /\ \E exc \in { "SSLError", "OSError" } : ClientRaise(exc)
          /\ UNCHANGED << cRaw, cSecure >>
    /\ UNCHANGED << peer, file_path, fileExists, fileContent, file_size,
                    bytes_sent, progress, sendSizes, cShut, cRel >>
    /\ UNCHANGED << connVars, serverVars, sessions, cliVars >>

\* secure_socket.connect(...): the TCP connection, queued in the backlog
ClientConnect ==
    /\ cPc = "c_connect"
    /\ \/ /\ tcp' = "pending" /\ cPc' = "c_handshake" /\ UNCHANGED << cReport, cExc >>
       \/ /\ \E exc \in { "ConnectionError", "timeout" } : ClientRaise(exc)
          /\ UNCHANGED tcp
    /\ UNCHANGED << peer, file_path, fileExists, fileContent, cRaw, cSecure,
                    file_size, bytes_sent, progress, sendSizes, cShut, cRel >>
    /\ UNCHANGED << sent, rdPos, peerClosed, serverVars, sessions, cliVars >>

\* What a sendall(b) that raises has put on the wire: any part of b short of
\* all of it.
PartialWrites(b) == { Prefix(b, k) : k \in 0..(Len(b) - 1) } \cup { << >> }

\* (mutant) a failed write passed over, the next write made all the same
SendAllIgnoreError(b, next) ==
    \/ /\ sent' = sent \o b /\ cPc' = next /\ UNCHANGED << cReport, cExc >>
    \/ /\ \E exc \in SendErrors : cExc' = exc
       /\ cPc' = next
       /\ UNCHANGED << sent, cReport >>

\* secure_socket.sendall(b): all of b is written, or an exception is raised
\* after part of it was
SendAll(b, next) ==
    \/ /\ sent' = sent \o b /\ cPc' = next /\ UNCHANGED << cReport, cExc >>
    \/ /\ \E exc \in SendErrors : ClientRaise(exc)
       /\ \E w \in PartialWrites(b) : sent' = sent \o w

\* file_name, file_size, bytes_sent = 0, name_length; sendall(name_length)
ClientSendLength ==
    /\ cPc = "c_header"
    /\ file_size' = Len(fileContent)
    /\ bytes_sent' = 0
    /\ SendAll(ToBytes4(Len(Encode(Basename(file_path)))), "c_name")
    /\ UNCHANGED << peer, file_path, fileExists, fileContent, cRaw, cSecure,
                    progress, sendSizes, cShut, cRel >>
    /\ UNCHANGED << tcp, rdPos, peerClosed, serverVars, sessions, cliVars >>

\* secure_socket.sendall(file_name.encode())
ClientSendName ==
    /\ cPc = "c_name"
    /\ SendAll(Encode(Basename(file_path)), "c_loop")
    /\ UNCHANGED << peer, file_path, fileExists, fileContent, cRaw, cSecure,
                    file_size, bytes_sent, progress, sendSizes, cShut, cRel >>
    /\ UNCHANGED << tcp, rdPos, peerClosed, serverVars, sessions, cliVars >>

\* one turn of the loop: data = file.read(1024); sendall(data);
\* bytes_sent += len(data); progress = (bytes_sent / file_size) * 100
ClientSendChunk ==
    /\ cPc = "c_loop"
    /\ LET chunk == ReadChunk(fileContent, bytes_sent)
       IN  /\ chunk # << >>
           /\ \/ /\ sent' = sent \o chunk
                 /\ bytes_sent' = bytes_sent + Len(chunk)
                 /\ sendSizes' = Append(sendSizes, Len(chunk))
                 /\ IF file_size = 0
                      THEN ClientRaise("ZeroDivisionError") /\ UNCHANGED progress
                      ELSE /\ progress' = Progress(bytes_sent + Len(chunk), file_size)
                           /\ UNCHANGED << cPc, cReport, cExc >>
              \/ /\ \E exc \in SendErrors : ClientRaise(exc)
                 /\ \E w \in PartialWrites(chunk) : sent' = sent \o w
                 /\ UNCHANGED << bytes_sent, sendSizes, progress >>
    /\ UNCHANGED << peer, file_path, fileExists, fileContent, cRaw, cSecure,
                    file_size, cShut, cRel >>
    /\ UNCHANGED << tcp, rdPos, peerClosed, serverVars, sessions, cliVars >>

\* if not data: break; print("File sent successfully.")
ClientEndOfFile ==
    /\ cPc = "c_loop"
    /\ ReadChunk(fileContent, bytes_sent) = << >>
    /\ cReport' = "File sent successfully"
    /\ UNCHANGED cExc
    /\ cPc' = "c_finally"
    /\ UNCHANGED << peer, file_path, fileExists, fileContent, cRaw, cSecure,
                    file_size, bytes_sent, progress, sendSizes, cShut, cRel >>
    /\ UNCHANGED << connVars, serverVars, sessions, cliVars >>

\* (mutant) the shutdown made without its try / except
ShutdownPropagates(outcome) == outcome = "ok"

\* try: sock.shutdown(socket.SHUT_RDWR) / except: pass -- whether the
\* statement after it, the close, is reached when shutdown ends with outcome
ShutdownSwallowed(outcome) == outcome \in { "ok", "failed" }

\* What becomes of a socket object that send_file leaves unclosed when it
\* returns: it stays open, or the runtime finalises it once it is garbage
\* (no statement of the program closes it).
Unclosed(raw) == IF raw = "open" THEN { "open", "finalized" } ELSE { raw }

\* finally: if 'secure_socket' in locals(): try: secure_socket.shutdown(...)
\* except: pass.  With secure_socket unbound the block only prints and
\* send_file returns.
ClientFinally ==
    /\ cPc = "c_finally"
    /\ IF cSecure # "unbound"
         THEN /\ \E sh \in { "ok", "failed" } :
                    /\ cShut' = sh
                    /\ cPc' = IF ShutdownSwallowed(sh) THEN "c_close" ELSE "c_raised"
              /\ UNCHANGED cRaw
         ELSE /\ cPc' = "c_done"
              /\ cRaw' \in Unclosed(cRaw)
              /\ UNCHANGED cShut
    /\ UNCHANGED << peer, file_path, fileExists, fileContent, cSecure,
                    file_size, bytes_sent, progress, sendSizes, cReport, cExc, cRel >>
    /\ UNCHANGED << connVars, serverVars, sessions, cliVars >>

\* secure_socket.close(); print("Connection ... closed.")
ClientClose ==
    /\ cPc = "c_close"
    /\ cSecure' = "closed"
    /\ cRel' = IF cSecure = "open" THEN cRel + 1 ELSE cRel
    /\ peerClosed' = TRUE
    /\ cShut' = "none"
    /\ cPc' = "c_done"
    /\ UNCHANGED << peer, file_path, fileExists, fileContent, cRaw, file_size,
                    bytes_sent, progress, sendSizes, cReport, cExc >>
    /\ UNCHANGED << tcp, sent, rdPos, serverVars, sessions, cliVars >>

\* a peer that is not send_file: connects, and after the handshake writes
\* some bytes and closes
RogueConnect ==
    /\ cPc = "r_connect"
    /\ tcp' = "pending" /\ cPc' = "c_handshake"
    /\ UNCHANGED << peer, file_path, fileExists, fileContent, cRaw, cSecure,
                    file_size, bytes_sent, progress, sendSizes, cReport, cExc, cShut,
                    cRel >>
    /\ UNCHANGED << sent, rdPos, peerClosed, serverVars, sessions, cliVars >>

RogueSend ==
    /\ cPc = "r_send"
    /\ \E st \in RogueStreams : sent' = st
    /\ peerClosed' = TRUE
    /\ cPc' = "c_done"
    /\ UNCHANGED << peer, file_path, fileExists, fileContent, cRaw, cSecure,
                    file_size, bytes_sent, progress, sendSizes, cReport, cExc, cShut,
                    cRel >>
    /\ UNCHANGED << tcp, rdPos, serverVars, sessions, cliVars >>

\* ------------------------------------------------------------------- server
\* What secure_client.recv(n) can do: return 1..n of the bytes available;
\* return b'' or raise the unexpected-EOF SSLError once the peer has closed
\* and everything was read; raise SSLWantReadError; raise an I/O error.
RecvResults(n) ==
    { [kind |-> "data", k |-> k, exc |-> ""] : k \in 1..Min(n, Avail) }
    \cup (IF Avail = 0 /\ peerClosed
            THEN { [kind |-> "eof", k |-> 0, exc |-> ""],
                   [kind |-> "ssl_eof", k |-> 0, exc |-> "SSLError"] }
            ELSE {})
    \cup (IF retries < MaxRetries
            THEN { [kind |-> "want_read", k |-> 0, exc |-> ""] } ELSE {})
    \cup { [kind |-> "raise", k |-> 0, exc |-> e] : e \in IOErrors }

\* except ConnectionError / except Exception, around the receive
InnerCatch(exc) ==
    CASE exc = "ConnectionError" -> "Connection error"
      [] OTHER -> "Error while receiving file"

\* (mutant) the loop body guarded by except ssl.SSLError alone
OuterCatchSslOnly(exc) ==
    CASE exc = "SSLError" -> "SSL Error"
      [] OTHER -> "uncaught"

\* except ssl.SSLError / except Exception, around the loop body
OuterCatch(exc) ==
    CASE exc = "SSLError" -> "SSL Error"
      [] OTHER -> "Error"

\* (mutant) a close that releases nothing
AfterCloseNothing(t, id) == t

\* sock.close() on a socket accepted for connection id: the connection is
\* released if it is still open; otherwise the call meets a socket whose
\* connection is gone.  t and the result are <<sOpen, relCount, staleClose>>.
AfterClose(t, id) ==
    IF id \in t[1]
      THEN << t[1] \ { id }, [t[2] EXCEPT ![id] = @ + 1], t[3] >>
      ELSE << t[1], t[2], TRUE >>

\* the handlers at lines 110-125: if 'client_socket' in locals(): shutdown
\* (errors swallowed), close
OuterHandlerClose(t) ==
    IF client_socket # 0 THEN AfterClose(t, client_socket) ELSE t

\* an exception reaches the handlers of the loop body; t is the state of the
\* connections when it does
OuterRaise(exc, t) ==
    IF OuterCatch(exc) = "uncaught"
      THEN /\ sPc' = "s_exited"
           /\ sOpen' = t[1] /\ relCount' = t[2] /\ staleClose' = t[3]
      ELSE \E sh \in { "ok", "failed" } :
             IF client_socket = 0 \/ ShutdownSwallowed(sh)
               THEN LET u == OuterHandlerClose(t)
                    IN  /\ sPc' = "s_accept"
                        /\ sOpen' = u[1] /\ relCount' = u[2] /\ staleClose' = u[3]
               ELSE /\ sPc' = "s_exited"
                    /\ sOpen' = t[1] /\ relCount' = t[2] /\ staleClose' = t[3]

\* client_socket, client_address = server_socket.accept(); settimeout(30)
ServerAccept ==
    /\ sPc = "s_accept"
    /\ tcp = "pending"
    /\ tcp' = "accepted"
    /\ client_socket' = sessions
    /\ sOpen' = sOpen \cup { sessions }
    /\ srvLog' = << "accept" >>
    /\ sPc' = "s_wrap"
    /\ UNCHANGED << secure_client, relCount, staleClose, data, file_name_length,
                    file_name, sink, sinkName, sinkContent, polls, retries,
                    recvSizes, sReport, sEvent, sShut >>
    /\ UNCHANGED << clientVars, sent, rdPos, peerClosed, sessions, cliVars >>

\* server_socket.accept() raises
ServerAcceptFail ==
    /\ sPc = "s_accept"
    /\ OuterRaise("OSError", << sOpen, relCount, staleClose >>)
    /\ UNCHANGED << client_socket, secure_client, data, file_name_length,
                    file_name, sink, sinkName, sinkContent, polls, retries,
                    recvSizes, sReport, sEvent, sShut, srvLog >>
    /\ UNCHANGED << clientVars, connVars, sessions, cliVars >>

\* The TLS handshake: context.wrap_socket(client_socket, server_side=True) on
\* the server and the handshake of connect() on the client.  wrap_socket
\* detaches client_socket; when the handshake fails the SSL socket closes
\* itself before the exception is raised.
Handshake ==
    /\ sPc = "s_wrap" /\ cPc = "c_handshake"
    /\ \/ /\ secure_client' = sessions
          /\ data' = << >>
          /\ srvLog' = Append(srvLog, "handshake")
          /\ sPc' = "s_len"
          /\ cPc' = IF peer = "client" THEN "c_header" ELSE "r_send"
          /\ UNCHANGED << sOpen, relCount, staleClose, cReport, cExc, peerClosed >>
       \/ /\ \E exc \in IOErrors :
               OuterRaise(exc, AfterClose(<< sOpen, relCount, staleClose >>, sessions))
          /\ srvLog' = srvLog \o << "handshake", "close" >>
          /\ IF peer = "client"
               THEN ClientRaise("SSLError") /\ UNCHANGED peerClosed
               ELSE cPc' = "c_done" /\ peerClosed' = TRUE /\ UNCHANGED << cReport, cExc >>
          /\ UNCHANGED << secure_client, data >>
    /\ UNCHANGED << client_socket, file_name_length, file_name, sink, sinkName,
                    sinkContent, polls, retries, recvSizes, sReport, sEvent,
                    sShut >>
    /\ UNCHANGED << peer, file_path, fileExists, fileContent, cRaw, cSecure,
                    file_size, bytes_sent, progress, sendSizes, cShut, cRel >>
    /\ UNCHANGED << tcp, sent, rdPos, sessions, cliVars >>

\* (mutant) the partial file removed when the receive fails
InnerRaiseUnlink(exc, event) ==
    /\ sReport' = InnerCatch(exc)
    /\ sEvent' = event
    /\ sink' = "none"
    /\ polls' = 0 /\ retries' = 0
    /\ sPc' = "s_finally"

\* an exception raised inside the inner try: the with block closes the sink,
\* a handler prints, finally runs next
InnerRaise(exc, event) ==
    /\ sReport' = InnerCatch(exc)
    /\ sEvent' = event
    /\ sink' = IF sink = "open" THEN "closed" ELSE sink
    /\ polls' = 0 /\ retries' = 0
    /\ sPc' = "s_finally"

\* (mutant) the retry condition handled like any other SSLError
WantReadRaise(loopPc) == InnerRaise("SSLError", "want_read")

\* except ssl.SSLWantReadError: continue -- back to the head of the loop at
\* loopPc, nothing else touched
WantRead(loopPc) ==
    /\ retries' = retries + 1
    /\ sPc' = loopPc
    /\ UNCHANGED << sReport, sEvent, sink, polls >>

\* (mutant) recv(1024) whatever is still missing
RecvSizeWhole(length) == HdrRecvMax

\* One turn of receive_data's loop for `length` bytes:
\* chunk = secure_client.recv(min(length - len(data), 1024))
RecvSize(length) == Min(length - Len(data), HdrRecvMax)

ReceiveDataStep(length) ==
    /\ Len(data) < length
    /\ srvLog' = IF srvLog[Len(srvLog)] = "receive" THEN srvLog
                 ELSE Append(srvLog, "receive")
    /\ \E r \in RecvResults(RecvSize(length)) :
         CASE r.kind = "data" ->
                /\ data' = data \o SubSeq(sent, rdPos + 1, rdPos + r.k)
                /\ rdPos' = rdPos + r.k
                /\ retries' = 0
                /\ UNCHANGED << sPc, sReport, sEvent, sink, polls >>
           [] r.kind = "eof" ->
                /\ InnerRaise("ConnectionError", "closed_in_header")
                /\ UNCHANGED << data, rdPos >>
           [] r.kind = "want_read" ->
                /\ WantRead(sPc)
                /\ UNCHANGED << data, rdPos >>
           [] OTHER ->
                /\ InnerRaise(r.exc, IF r.kind = "ssl_eof" THEN "closed_in_header"
                                     ELSE r.exc)
                /\ UNCHANGED << data, rdPos >>
    /\ UNCHANGED << client_socket, secure_client, sOpen, relCount, staleClose,
                    file_name_length, file_name, sinkName, sinkContent,
                    recvSizes, sShut >>
    /\ UNCHANGED << clientVars, tcp, sent, peerClosed, sessions, cliVars >>

\* name_length_data = receive_data(secure_client, 4)
ServerRecvLength ==
    /\ sPc = "s_len"
    /\ ReceiveDataStep(HeaderLen)

\* file_name_length = int.from_bytes(name_length_data, byteorder='big')
ServerLengthDone ==
    /\ sPc = "s_len"
    /\ Len(data) >= HeaderLen
    /\ file_name_length' = FromBytes(data)
    /\ data' = << >>
    /\ sPc' = "s_name"
    /\ UNCHANGED << client_socket, secure_client, sOpen, relCount, staleClose,
                    file_name, sink, sinkName, sinkContent, polls, retries,
                    recvSizes, sReport, sEvent, sShut, srvLog >>
    /\ UNCHANGED << clientVars, connVars, sessions, cliVars >>

\* receive_data(secure_client, file_name_length)
ServerRecvName ==
    /\ sPc = "s_name"
    /\ ReceiveDataStep(file_name_length)

\* file_name = receive_data(...).decode()
ServerNameDone ==
    /\ sPc = "s_name"
    /\ Len(data) >= file_name_length
    /\ LET d == Decode(data)
       IN  IF d[1]
             THEN /\ file_name' = d[2]
                  /\ sPc' = "s_open"
                  /\ retries' = 0 /\ polls' = 0
                  /\ UNCHANGED << sReport, sEvent, sink >>
             ELSE /\ InnerRaise("UnicodeDecodeError", "UnicodeDecodeError")
                  /\ UNCHANGED file_name
    /\ UNCHANGED << client_socket, secure_client, sOpen, relCount, staleClose,
                    data, file_name_length, sinkName, sinkContent,
                    recvSizes, sShut, srvLog >>
    /\ UNCHANGED << clientVars, connVars, sessions, cliVars >>

\* open(file_name, 'wb') fails for the empty name and for a directory name
CanOpen(name) == name # << >> /\ name[Len(name)] # "/"

\* with open(file_name, 'wb') as file:
ServerOpen ==
    /\ sPc = "s_open"
    /\ IF CanOpen(file_name)
         THEN /\ sink' = "open"
              /\ sinkName' = file_name
              /\ sinkContent' = << >>
              /\ sPc' = "s_select"
              /\ polls' = 0 /\ retries' = 0
              /\ UNCHANGED << sReport, sEvent >>
         ELSE /\ InnerRaise("OSError", "open_failed")
              /\ UNCHANGED << sinkName, sinkContent >>
    /\ UNCHANGED << client_socket, secure_client, sOpen, relCount, staleClose,
                    data, file_name_length, file_name, recvSizes,
                    sShut, srvLog >>
    /\ UNCHANGED << clientVars, connVars, sessions, cliVars >>

\* (mutant) end of stream not counted as readable
SelectExpiresAtEof == Avail = 0

\* ready = select.select([secure_client], [], [], 5.0); not ready[0]:
\* the wait expires when nothing arrives: no byte is pending and the peer
\* has not closed.
SelectExpires == Avail = 0 /\ ~peerClosed

\* (mutant) the expired wait taken for a transfer timeout
SelectTimedOutRaise == InnerRaise("timeout", "timeout")

\* if not ready[0]: continue
SelectTimedOut ==
    /\ polls' = polls + 1
    /\ UNCHANGED << sPc, sink, sReport, sEvent, retries >>

ServerSelectTimeout ==
    /\ sPc = "s_select"
    /\ SelectExpires
    /\ polls < MaxPolls
    /\ SelectTimedOut
    /\ UNCHANGED << client_socket, secure_client, sOpen, relCount,
                    staleClose, data, file_name_length, file_name,
                    sinkName, sinkContent, recvSizes, sShut, srvLog >>
    /\ UNCHANGED << clientVars, connVars, sessions, cliVars >>

\* select reports the socket readable
ServerSelectReady ==
    /\ sPc = "s_select"
    /\ sPc' = "s_recv"
    /\ UNCHANGED << client_socket, secure_client, sOpen, relCount, staleClose,
                    data, file_name_length, file_name, sink, sinkName,
                    sinkContent, polls, retries, recvSizes, sReport, sEvent,
                    sShut, srvLog >>
    /\ UNCHANGED << clientVars, connVars, sessions, cliVars >>

\* (mutant) continue where break was meant
PayloadBreakContinue(event) ==
    /\ sPc' = "s_select"
    /\ polls' = 0 /\ retries' = 0
    /\ UNCHANGED << sEvent, sink, sReport >>

\* the loop is left by break: the with block closes the sink and
\* print(f"Received file {file_name} successfully") runs
PayloadBreak(event) ==
    /\ sEvent' = event
    /\ sink' = "closed"
    /\ polls' = 0 /\ retries' = 0
    /\ sReport' = "Received file successfully"
    /\ sPc' = "s_finally"

\* (mutant) a short read taken for the end of the stream
EndOfPayloadShort(k) == k < RecvMax

\* if not data: break
EndOfPayload(k) == k = 0

\* (mutant) every SSLError taken for the peer's close
IsUnexpectedEofAnySsl(r) == r.exc = "SSLError"

\* except ssl.SSLError as e: if 'UNEXPECTED_EOF_WHILE_READING' in str(e)
IsUnexpectedEof(r) == r.kind = "ssl_eof"

\* (mutant) the sink rewritten by every chunk
SinkWriteOver(content, chunk) == chunk

\* file.write(data)
SinkWrite(content, chunk) == content \o chunk

\* data = secure_client.recv(1024) and what follows it in the loop body
ServerRecvPayload ==
    /\ sPc = "s_recv"
    /\ \E r \in RecvResults(RecvMax) :
         CASE r.kind \in { "data", "eof" } ->
                /\ rdPos' = rdPos + r.k
                /\ IF EndOfPayload(r.k)
                     THEN /\ PayloadBreak("eof")
                          /\ UNCHANGED << sinkContent, recvSizes >>
                     ELSE /\ sinkContent' =
                               SinkWrite(sinkContent, SubSeq(sent, rdPos + 1, rdPos + r.k))
                          /\ recvSizes' = Append(recvSizes, r.k)
                          /\ polls' = 0 /\ retries' = 0
                          /\ sPc' = "s_select"
                          /\ UNCHANGED << sEvent, sink, sReport >>
           [] r.kind = "want_read" ->
                /\ WantRead("s_select")
                /\ UNCHANGED << sinkContent, recvSizes, rdPos >>
           [] OTHER ->
                /\ IF IsUnexpectedEof(r)
                     THEN PayloadBreak("peer_closed")
                     ELSE InnerRaise(r.exc, r.exc)
                /\ UNCHANGED << sinkContent, recvSizes, rdPos >>
    /\ UNCHANGED << client_socket, secure_client, sOpen, relCount, staleClose,
                    data, file_name_length, file_name, sinkName, sShut, srvLog >>
    /\ UNCHANGED << clientVars, tcp, sent, peerClosed, sessions, cliVars >>

\* finally: try: secure_client.shutdown(socket.SHUT_RDWR) except: pass
ServerFinally ==
    /\ sPc = "s_finally"
    /\ \E sh \in { "ok", "failed" } :
          /\ sShut' = sh
          /\ IF ShutdownSwallowed(sh)
               THEN sPc' = "s_close" /\ UNCHANGED << sOpen, relCount, staleClose >>
               ELSE OuterRaise("OSError", << sOpen, relCount, staleClose >>)
    /\ UNCHANGED << client_socket, secure_client,
                    data, file_name_length, file_name, sink, sinkName,
                    sinkContent, polls, retries, recvSizes, sReport, sEvent,
                    srvLog >>
    /\ UNCHANGED << clientVars, connVars, sessions, cliVars >>

\* secure_client.close(); print("Connection ... closed."); back to accept
ServerClose ==
    /\ sPc = "s_close"
    /\ LET t == AfterClose(<< sOpen, relCount, staleClose >>, secure_client)
       IN  sOpen' = t[1] /\ relCount' = t[2] /\ staleClose' = t[3]
    /\ srvLog' = Append(srvLog, "close")
    /\ sShut' = "none"
    /\ sPc' = "s_accept"
    /\ UNCHANGED << client_socket, secure_client, data, file_name_length,
                    file_name, sink, sinkName, sinkContent, polls, retries,
                    recvSizes, sReport, sEvent >>
    /\ UNCHANGED << clientVars, connVars, sessions, cliVars >>

\* ------------------------------------------------------ the __main__ blocks
Digits == { "0", "1", "2", "3", "4", "5", "6", "7", "8", "9" }

DigitVal(c) ==
    CASE c = "0" -> 0 [] c = "1" -> 1 [] c = "2" -> 2 [] c = "3" -> 3
      [] c = "4" -> 4 [] c = "5" -> 5 [] c = "6" -> 6 [] c = "7" -> 7
      [] c = "8" -> 8 [] c = "9" -> 9

RECURSIVE DecVal(_)
DecVal(s) ==
    IF s = << >> THEN 0
    ELSE 10 * DecVal(Prefix(s, Len(s) - 1)) + DigitVal(s[Len(s)])

RECURSIVE Strip(_)
Strip(s) ==
    IF s = << >> THEN s
    ELSE IF s[1] = " " THEN Strip(Tail(s))
    ELSE IF s[Len(s)] = " " THEN Strip(Prefix(s, Len(s) - 1))
    ELSE s

\* int(text): surrounding blanks are dropped, one sign is allowed, the rest
\* must be decimal digits, at least one; anything else is a ValueError
ParseInt(text) ==
    LET t == Strip(text)
        signed == t # << >> /\ t[1] \in { "-", "+" }
        body == IF signed THEN Tail(t) ELSE t
    IN  IF body = << >> \/ \E i \in 1..Len(body) : body[i] \notin Digits
          THEN [ok |-> FALSE, val |-> 0]
          ELSE [ok |-> TRUE,
                val |-> IF signed /\ t[1] = "-" THEN 0 - DecVal(body) ELSE DecVal(body)]

\* (mutant) the lower limit forgotten
PortInRangeNoLower(p) == p <= PortMax

\* assert 1024 <= port <= 65535
PortInRange(p) == PortMin <= p /\ p <= PortMax

\* Port arguments given on the command line.
PortArgs ==
    { << "1", "0", "2", "3" >>, << "1", "0", "2", "4" >>, << "8", "0", "8", "0" >>,
      << "6", "5", "5", "3", "5" >>, << "6", "5", "5", "3", "6" >>,
      << "0" >>, << "-", "1" >>, << "-", "8", "0", "8", "0" >>,
      << "+", "8", "0", "8", "0" >>, << " ", "8", "0", "8", "0", " " >>,
      << "0", "8", "0", "8", "0" >>, << "9", "9", "9", "9", "9", "9" >>,
      << >>, << "-" >>, << "a", "b", "c" >>, << "8", "0", "a" >>,
      << "8", "0", ".", "5" >>, << "8", " ", "0" >> }

\* The programs as started from the command line.
InitCli ==
    /\ Idle
    /\ sPc = "s_off"
    /\ prog \in { "client", "server" }
    /\ argcOk \in BOOLEAN
    /\ argPort \in PortArgs
    /\ mPc = "m_args" /\ port = 0 /\ mReport = "none"
    /\ server_socket = "none"

\* if len(sys.argv) != 4 (client) / != 2 (server): print usage; sys.exit(1)
MainArgs ==
    /\ mPc = "m_args"
    /\ IF argcOk
         THEN mPc' = "m_port" /\ UNCHANGED mReport
         ELSE mPc' = "m_exit1" /\ mReport' = "Usage"
    /\ UNCHANGED << prog, argcOk, argPort, port, server_socket >>
    /\ UNCHANGED << clientVars, connVars, serverVars, sessions >>

\* try: port = int(sys.argv[...]) ... except ValueError: print(...)
MainParsePort ==
    /\ mPc = "m_port"
    /\ LET r == ParseInt(argPort)
       IN  IF r.ok
             THEN port' = r.val /\ mPc' = "m_range" /\ UNCHANGED mReport
             ELSE /\ mReport' = "Port should be a number."
                  /\ mPc' = "m_end"
                  /\ UNCHANGED port
    /\ UNCHANGED << prog, argcOk, argPort, server_socket >>
    /\ UNCHANGED << clientVars, connVars, serverVars, sessions >>

\* client: assert 1024 <= server_port <= 65535; file_path = sys.argv[3];
\* send_file(server_ip, server_port, file_path).  An AssertionError is not
\* caught by except ValueError.
ClientMainCall ==
    /\ mPc = "m_range" /\ prog = "client"
    /\ IF PortInRange(port)
         THEN /\ mPc' = "m_called"
              /\ cPc' = "c_start"
              /\ \E p \in FilePaths, ex \in BOOLEAN :
                    file_path' = p /\ fileExists' = ex
              /\ UNCHANGED mReport
         ELSE /\ mPc' = "m_raised"
              /\ mReport' = "AssertionError"
              /\ UNCHANGED << cPc, file_path, fileExists >>
    /\ UNCHANGED << prog, argcOk, argPort, port, server_socket >>
    /\ UNCHANGED << peer, fileContent, cRaw, cSecure, file_size, bytes_sent,
                    progress, sendSizes, cReport, cExc, cShut, cRel >>
    /\ UNCHANGED << connVars, serverVars, sessions >>

\* server: start_server(port): assert 1024 <= port <= 65535
ServerMainCall ==
    /\ mPc = "m_range" /\ prog = "server"
    /\ IF PortInRange(port)
         THEN mPc' = "m_called" /\ sPc' = "s_bind" /\ UNCHANGED mReport
         ELSE /\ mPc' = "m_raised"
              /\ mReport' = "AssertionError"
              /\ UNCHANGED sPc
    /\ UNCHANGED << prog, argcOk, argPort, port, server_socket >>
    /\ UNCHANGED << client_socket, secure_client, sOpen, relCount, staleClose,
                    data, file_name_length, file_name, sink, sinkName,
                    sinkContent, polls, retries, recvSizes, sReport, sEvent,
                    sShut, srvLog >>
    /\ UNCHANGED << clientVars, connVars, sessions >>

\* server_socket = socket.socket(...); setsockopt; bind; listen(5); the TLS
\* context with its certificate.  A failure here ends start_server.
ServerStartup ==
    /\ sPc = "s_bind"
    /\ \/ /\ server_socket' = "listening"
          /\ sPc' = "s_accept"
          /\ UNCHANGED << mPc, mReport >>
       \/ /\ sPc' = "s_exited"
          /\ mPc' = "m_raised"
          /\ mReport' = "OSError"
          /\ UNCHANGED server_socket
    /\ UNCHANGED << prog, argcOk, argPort, port >>
    /\ UNCHANGED << client_socket, secure_client, sOpen, relCount, staleClose,
                    data, file_name_length, file_name, sink, sinkName,
                    sinkContent, polls, retries, recvSizes, sReport, sEvent,
                    sShut, srvLog >>
    /\ UNCHANGED << clientVars, connVars, sessions >>

\* ------------------------------------------------------------ specification
Next ==
    \/ NewClient
    \/ ClientCheckFile \/ ClientSocket \/ ClientWrap \/ ClientConnect
    \/ ClientSendLength \/ ClientSendName \/ ClientSendChunk \/ ClientEndOfFile
    \/ ClientFinally \/ ClientClose
    \/ RogueConnect \/ RogueSend
    \/ ServerAccept \/ ServerAcceptFail \/ Handshake
    \/ ServerRecvLength \/ ServerLengthDone \/ ServerRecvName \/ ServerNameDone
    \/ ServerOpen \/ ServerSelectTimeout \/ ServerSelectReady \/ ServerRecvPayload
    \/ ServerFinally \/ ServerClose

Spec == Init /\ [][Next]_vars

\* The programs from their command lines up to the first socket.
NextCli ==
    \/ MainArgs \/ MainParsePort \/ ClientMainCall \/ ServerMainCall
    \/ ServerStartup
    \/ ClientCheckFile \/ ClientSocket

SpecCli == InitCli /\ [][NextCli]_vars

\* The steps start_server takes by itself: the handshake and every recv end
\* within the 30 seconds of settimeout(30), select returns when the socket is
\* readable (bytes pending or the peer's end closed), and the statements
\* between them run.  Nothing makes a peer write or close, a connection
\* arrive, or select report a socket readable that has nothing to read.
ServerStep ==
    \/ Handshake
    \/ ServerRecvLength \/ ServerLengthDone \/ ServerRecvName \/ ServerNameDone
    \/ ServerOpen
    \/ (ServerSelectReady /\ ~SelectExpires)
    \/ ServerRecvPayload
    \/ ServerFinally \/ ServerClose

\* The same steps with one client process: the server's first iterations,
\* up to and including the one that serves it.
NextLive == Next /\ (sessions = 0 \/ sessions' = sessions)

\* The programs under a scheduler that lets the server run.
SpecLive == Init /\ [][NextLive]_vars /\ WF_vars(ServerStep)

\* ------------------------------------------------------------------- claims
\* The last component of a path: the suffix after the last separator.
IsLastComponent(f, path) ==
    /\ ~HasSeparator(f)
    /\ Len(f) <= Len(path)
    /\ Drop(path, Len(path) - Len(f)) = f
    /\ Len(f) < Len(path) => path[Len(path) - Len(f)] = "/"

\* the server's loop iteration for the current connection has closed it
IterationClosed == srvLog # << >> /\ srvLog[Len(srvLog)] = "close"

ClientSucceeded ==
    peer = "client" /\ cPc = "c_done" /\ cReport = "File sent successfully"

ServerSucceeded == sReport = "Received file successfully"

\* C1: round trip.  When send_file has run to completion (header, every
\* chunk, close) and the server's receive cycle on that connection has ended
\* without a transport error, the server reports success and leaves a file
\* whose name is the last component of the path sent and whose content is
\* byte for byte the source content, with its length.
C1_RoundTrip ==
    (ClientSucceeded /\ IterationClosed /\ sEvent \notin IOErrors)
      => /\ ServerSucceeded
         /\ sink = "closed"
         /\ IsLastComponent(sinkName, file_path)
         /\ sinkContent = fileContent
         /\ Len(sinkContent) = Len(fileContent)

C1_Witness ==
    /\ ClientSucceeded /\ IterationClosed /\ ServerSucceeded
    /\ Len(fileContent) = MaxFileLen
    /\ recvSizes # sendSizes

ErrorReports == { "Connection error", "Error while receiving file" }

ReceivePcs == { "s_len", "s_name", "s_open", "s_select", "s_recv" }

PayloadPcs == { "s_select", "s_recv" }

\* the receive cycle of the current connection was started and has ended
ReceiveEnded ==
    /\ Len(srvLog) >= 3 /\ srvLog[3] = "receive"
    /\ sPc \notin ReceivePcs

\* the peer has written less than the 4 bytes of the length plus the name
\* length they announce
ShortHeader ==
    \/ Len(sent) < HeaderLen
    \/ Len(sent) < HeaderLen + FromBytes(Prefix(sent, HeaderLen))

\* C2: framing.  The server reads exactly the first 4 bytes of the stream as
\* the length N and exactly the next N bytes as the file name, whatever the
\* sizes of the recv results, and only bytes after them reach the sink; when
\* the stream ends before 4 + N header bytes have arrived the receive ends
\* with an error report, and no sink file is opened.
C2_Framing ==
    /\ sPc = "s_len" =>
         /\ Len(data) <= HeaderLen
         /\ rdPos = Len(data)
         /\ data = Prefix(sent, rdPos)
    /\ sPc = "s_name" =>
         /\ file_name_length = FromBytes(Prefix(sent, HeaderLen))
         /\ Len(data) <= file_name_length
         /\ rdPos = HeaderLen + Len(data)
         /\ data = SubSeq(sent, HeaderLen + 1, rdPos)
    /\ sink # "none" =>
         /\ ~ShortHeader
         /\ file_name_length = FromBytes(Prefix(sent, HeaderLen))
         /\ Encode(sinkName) = SubSeq(sent, HeaderLen + 1, HeaderLen + file_name_length)
         /\ rdPos >= HeaderLen + file_name_length
         /\ sinkContent = SubSeq(sent, HeaderLen + file_name_length + 1, rdPos)
    /\ (ReceiveEnded /\ ShortHeader) =>
         /\ sReport \in ErrorReports
         /\ sink = "none"
    /\ sEvent = "closed_in_header" => (ShortHeader /\ sReport \in ErrorReports)

C2_Witness ==
    /\ sEvent = "closed_in_header" /\ sReport = "Connection error"
    /\ sPc = "s_accept"
    /\ Len(sent) > HeaderLen /\ Len(data) >= 1
    /\ sink = "none"

\* C3: teardown exactly once.  The server never leaves its loop through the
\* close path, every connection whose iteration has ended was released
\* exactly once on the server and, for send_file, on the client, and no
\* close() call meets a socket whose connection was already released.
C3_TeardownExactlyOnce ==
    /\ sPc # "s_exited"
    /\ \A c \in Sessions : relCount[c] <= 1
    /\ IterationClosed => relCount[sessions] = 1
    /\ cRel <= 1
    /\ (peer = "client" /\ cPc = "c_done" /\ tcp # "none") => cRel = 1
    /\ ~staleClose

LoopPcs == ReceivePcs \cup { "s_accept", "s_wrap", "s_finally", "s_close" }

\* C4: error isolation.  In the accept loop no event of a client's session
\* makes start_server exit: the server is always at a step of its loop, the
\* cleanup steps that follow an error can always be taken, and a waiting
\* connection can be accepted whenever the server is at accept.
C4_ServerIsolation ==
    /\ sPc # "s_exited"
    /\ sPc \in LoopPcs
    /\ sPc = "s_finally" => ENABLED ServerFinally
    /\ sPc = "s_close" => ENABLED ServerClose
    /\ (sPc = "s_accept" /\ tcp = "pending") => ENABLED ServerAccept

C4_Witness ==
    /\ sessions = 2 /\ staleClose
    /\ sPc = "s_recv" /\ sink = "open"

\* C5: the polling wait is no transfer timeout.  While expirations of the
\* select wait are counted the session is open, the sink is open and nothing
\* was reported; a step taken while waiting leaves the server in the receive
\* loop with the sink and the connection as they were; and the loop is left
\* only on end of stream, the peer-closed signal, or an I/O error or timeout
\* raised by recv.
C5_PollingIsNoTimeout ==
    /\ [](polls > 0 =>
            /\ sPc \in PayloadPcs
            /\ sink = "open"
            /\ secure_client \in sOpen
            /\ sReport = "none")
    /\ [][/\ sPc = "s_select" =>
               /\ sPc' \in PayloadPcs
               /\ sink' = sink /\ sinkContent' = sinkContent
               /\ sOpen' = sOpen /\ sReport' = sReport
          /\ (sPc \in PayloadPcs /\ sPc' \notin PayloadPcs) =>
               sEvent' \in { "eof", "peer_closed" } \cup IOErrors]_vars

C5_Witness ==
    /\ sPc = "s_select" /\ polls = MaxPolls
    /\ sink = "open" /\ secure_client \in sOpen /\ ~peerClosed

\* C6: missing source file.  When the path given to send_file does not
\* exist, send_file ends with the AssertionError of its first statement: no
\* socket is created, no connection is attempted, nothing is written.
C6_MissingFile ==
    (peer = "client" /\ ~fileExists /\ cPc # "idle") =>
        /\ cPc \in { "c_start", "c_raised" }
        /\ cPc = "c_raised" => cExc = "AssertionError"
        /\ cRaw = "none" /\ cSecure = "unbound"
        /\ tcp = "none" /\ sent = << >>

C6_Witness ==
    /\ peer = "client" /\ ~fileExists
    /\ cPc = "c_raised" /\ cExc = "AssertionError"

\* C7: empty file.  Sending a file of 0 bytes, the client makes no payload
\* write and no progress computation and, unless the transport fails,
\* reports success; the server does not wait once the client has closed
\* (end of stream counts as readable), and when its receive ends without a
\* transport error it has reported success and created the named file with
\* zero bytes.
C7_EmptyFile ==
    (peer = "client" /\ fileExists /\ fileContent = << >> /\ cPc # "idle") =>
        /\ progress = -1 /\ sendSizes = << >> /\ bytes_sent = 0
        /\ cExc # "ZeroDivisionError"
        /\ (cPc \in { "c_finally", "c_close", "c_done" } /\ cExc = "none") =>
              cReport = "File sent successfully"
        /\ (sPc = "s_select" /\ peerClosed) => ~(SelectExpires /\ polls < MaxPolls)
        /\ sink # "none" => (sinkContent = << >> /\ recvSizes = << >>)
        /\ (ClientSucceeded /\ IterationClosed /\ sEvent \notin IOErrors) =>
              /\ ServerSucceeded
              /\ sink = "closed"
              /\ IsLastComponent(sinkName, file_path)
              /\ sinkContent = << >>

C7_Witness ==
    /\ ClientSucceeded /\ fileExists /\ fileContent = << >>
    /\ IterationClosed /\ ServerSucceeded
    /\ sink = "closed" /\ sinkContent = << >> /\ sinkName = << "a" >>

\* the sizes of the writes of a file of `size` bytes in chunks of `chunk`:
\* ceil(size / chunk) writes, all of `chunk` bytes but a last one of
\* size mod chunk bytes when that is not zero
ExpectedSizes(size, chunk) ==
    [i \in 1..((size + chunk - 1) \div chunk) |->
        IF i * chunk <= size THEN chunk ELSE size % chunk]

RECURSIVE Sum(_)
Sum(q) == IF q = << >> THEN 0 ELSE Head(q) + Sum(Tail(q))

BothSucceeded == ClientSucceeded /\ IterationClosed /\ ServerSucceeded

\* what send_file has done when it reports success: the writes of the
\* claimed sizes, bytes-sent equal to the size, a last progress report of 100%
ClientChunking ==
    ClientSucceeded =>
        /\ sendSizes = ExpectedSizes(Len(fileContent), ClientChunk)
        /\ bytes_sent = Len(fileContent)
        /\ Len(fileContent) > 0 => progress = 1000

\* C8 as stated: the server's recv events have the sizes of the client's
\* writes, in their order.
C8_ChunkingAsStated ==
    /\ ClientChunking
    /\ BothSucceeded =>
        /\ recvSizes = sendSizes
        /\ Len(sinkContent) = Len(fileContent)

\* C8, amended: a file of S bytes is sent as ceil(S/1024) writes of 1024
\* bytes but a last one of S mod 1024 (2500 -> 1024, 1024, 452), and the
\* client's last progress report is 100% with bytes-sent = S; the server's
\* recv events return between 1 and 1024 bytes each and S bytes in all, in
\* the order sent, and it writes an S-byte file.
C8_Chunking ==
    /\ ExpectedSizes(2500, 1024) = << 1024, 1024, 452 >>
    /\ ClientChunking
    /\ \A i \in 1..Len(recvSizes) : recvSizes[i] >= 1 /\ recvSizes[i] <= RecvMax
    /\ Sum(recvSizes) = Len(sinkContent)
    /\ BothSucceeded =>
        /\ Sum(recvSizes) = Len(fileContent)
        /\ sinkContent = fileContent

C8_Witness ==
    /\ BothSucceeded
    /\ Len(fileContent) = 2 * ClientChunk + 1
    /\ sendSizes = << ClientChunk, ClientChunk, 1 >>
    /\ recvSizes = sendSizes

\* The port arguments that int() reads as a number in 1024..65535.
GoodPortArgs ==
    { << "1", "0", "2", "4" >>, << "8", "0", "8", "0" >>,
      << "6", "5", "5", "3", "5" >>, << "+", "8", "0", "8", "0" >>,
      << " ", "8", "0", "8", "0", " " >>, << "0", "8", "0", "8", "0" >> }

\* C9: port validation.  With a port argument that is not a number or is
\* outside 1024..65535, the client and the server end with an error report
\* (the message of the ValueError handler, or an AssertionError) and no
\* socket is created, bound or connected.
C9_PortValidation ==
    (argcOk /\ argPort \notin GoodPortArgs) =>
        /\ cPc = "idle" /\ cRaw = "none" /\ cSecure = "unbound" /\ tcp = "none"
        /\ sPc = "s_off" /\ server_socket = "none"
        /\ mPc \in { "m_args", "m_port", "m_range", "m_end", "m_raised" }
        /\ mPc = "m_end" => mReport = "Port should be a number."
        /\ mPc = "m_raised" => mReport = "AssertionError"

C9_Witness ==
    /\ prog = "server" /\ mPc = "m_raised" /\ mReport = "AssertionError"
    /\ port < PortMin /\ server_socket = "none"

\* C10: serial service.  The server holds at most one accepted connection,
\* that of the current iteration; it is at accept only with every accepted
\* connection released; and the steps of an iteration come in the order
\* accept, handshake, receive, close.
C10_SerialService ==
    /\ Cardinality(sOpen) <= 1
    /\ sOpen \subseteq { sessions }
    /\ sPc = "s_accept" => sOpen = {}
    /\ sPc \in (LoopPcs \ { "s_accept" }) => sOpen = { sessions }
    /\ srvLog \in { << >>, << "accept" >>, << "accept", "handshake" >>,
                    << "accept", "handshake", "receive" >>,
                    << "accept", "handshake", "receive", "close" >>,
                    << "accept", "handshake", "close" >> }
    /\ sPc = "s_wrap" => srvLog = << "accept" >>
    /\ sPc \in ReceivePcs => Len(srvLog) >= 2 /\ srvLog[Len(srvLog)] # "close"
    /\ sPc \in { "s_finally", "s_close" } =>
          srvLog = << "accept", "handshake", "receive" >>

C10_Witness ==
    /\ sessions = 2 /\ sPc = "s_wrap"
    /\ sOpen = { 2 } /\ relCount[1] = 1

\* what can end a receive: end of stream, the peer-closed signal, a close
\* inside the header, a name that does not decode or open, an I/O error
EndEvents ==
    { "eof", "peer_closed", "closed_in_header", "UnicodeDecodeError",
      "open_failed" } \cup IOErrors

\* C11: want-read is retried, never surfaced.  While SSLWantReadError
\* retries are counted the session is open and in its receive with nothing
\* reported; a retry changes neither the bytes accumulated by receive_data,
\* nor the stream position, nor the sink; no receive ends on a want-read;
\* a close inside the header and an I/O error do end it with an error report.
C11_WantReadRetried ==
    /\ [](/\ retries > 0 =>
               /\ sPc \in ReceivePcs
               /\ secure_client \in sOpen
               /\ sReport = "none" /\ sEvent = "none"
          /\ sEvent \in { "none" } \cup EndEvents
          /\ sEvent \in { "closed_in_header" } \cup IOErrors =>
               sReport \in ErrorReports)
    /\ [][retries' > retries =>
            /\ data' = data /\ rdPos' = rdPos
            /\ sink' = sink /\ sinkContent' = sinkContent
            /\ sPc' \in ReceivePcs
            /\ sOpen' = sOpen /\ sReport' = sReport]_vars

C11_Witness ==
    /\ sPc = "s_name" /\ retries = MaxRetries
    /\ Len(data) >= 1 /\ Len(data) < file_name_length
    /\ sReport = "none" /\ secure_client \in sOpen

\* a write of send_file (length, name or chunk) has raised: the connection
\* was established and the exception is one sendall raises
WriteFailed == peer = "client" /\ tcp = "accepted" /\ cExc \in SendErrors

ClientFailureReports == { "SSL Error", "Connection error", "Error" }

CleanupPcs == { "c_finally", "c_close", "c_done" }

\* C12: send failure policy.  A write that raises takes send_file straight
\* to its handler and its finally block; from then on nothing is written on
\* the session and no connection is made, the report is a failure report and
\* never the success message, and the shutdown and the close of the session
\* are run.
C12_SendFailurePolicy ==
    /\ [](WriteFailed =>
            /\ cPc \in CleanupPcs
            /\ cReport \in ClientFailureReports
            /\ cPc = "c_finally" => ENABLED ClientFinally
            /\ cPc = "c_close" => (cShut # "none" /\ ENABLED ClientClose)
            /\ cPc = "c_done" => (cSecure = "closed" /\ cRel = 1 /\ peerClosed))
    /\ [][/\ (cPc \in { "c_header", "c_name", "c_loop" } /\ cExc' # cExc) =>
               (cPc' = "c_finally" /\ cReport' \in ClientFailureReports)
          /\ (WriteFailed /\ sessions' = sessions) =>
               /\ sent' = sent /\ tcp' = tcp
               /\ bytes_sent' = bytes_sent
               /\ cReport' = cReport /\ cExc' = cExc
               /\ cPc' \in CleanupPcs]_vars

C12_Witness ==
    /\ WriteFailed /\ cPc = "c_done"
    /\ cSecure = "closed" /\ cRel = 1
    /\ bytes_sent = ClientChunk
    /\ Len(sent) > HeaderLen + 1 + bytes_sent
    /\ cReport = "Connection error"

IsPrefix(p, q) == Len(p) <= Len(q) /\ Prefix(q, Len(p)) = p

\* the name send_file is to announce: the last component of its path
SentName == CHOOSE f \in { Drop(file_path, k) : k \in 0..Len(file_path) } :
                IsLastComponent(f, file_path)

\* byte i of 4 of n, most significant byte first
BigEndianByte(n, i) == (n \div (256 ^ (HeaderLen - i))) % 256

\* the bytes written are the start of: the 4-byte big-endian length n of
\* the encoded name, the encoded name, the content
IsFramePrefix(w, name, content) ==
    LET n == Len(Encode(name))
    IN  /\ Len(w) <= HeaderLen + n + Len(content)
        /\ \A i \in 1..Min(Len(w), HeaderLen) : w[i] = BigEndianByte(n, i)
        /\ IsPrefix(SubSeq(w, HeaderLen + 1, Min(Len(w), HeaderLen + n)), Encode(name))
        /\ IsPrefix(Drop(w, HeaderLen + n), content)

\* C13: send ordering.  What send_file has written on its session is at
\* every moment a prefix of: the 4-byte big-endian length N, the N bytes of
\* the encoded last component of the path, the file's bytes in file order;
\* the length is complete before the name starts and the name before the
\* payload; when send_file reports success and has closed, the whole frame
\* was written; and nothing is written once the session is closed.
C13_SendOrdering ==
    /\ [](peer = "client" =>
            /\ IsFramePrefix(sent, SentName, fileContent)
            /\ cPc \in { "c_start", "c_socket", "c_wrap", "c_connect",
                         "c_handshake", "c_header" } => sent = << >>
            /\ cPc = "c_name" => Len(sent) = HeaderLen
            /\ cPc = "c_loop" =>
                 /\ Len(sent) = HeaderLen + Len(Encode(SentName)) + bytes_sent
                 /\ Drop(sent, HeaderLen + Len(Encode(SentName))) =
                       Prefix(fileContent, bytes_sent)
            /\ (cReport = "File sent successfully" /\ cPc \in CleanupPcs) =>
                 /\ Len(sent) = HeaderLen + Len(Encode(SentName)) + Len(fileContent)
                 /\ ~peerClosed <=> cPc # "c_done"
            /\ cPc \in { "c_header", "c_name", "c_loop" } =>
                 (cSecure = "open" /\ ~peerClosed))
    /\ [][(peer = "client" /\ peerClosed /\ sessions' = sessions) =>
             (sent' = sent /\ peerClosed')]_vars

C13_Witness ==
    /\ ClientSucceeded /\ peerClosed
    /\ file_path = << "d", "/", "a" >>
    /\ sent = << 0, 0, 0, 1, 97 >> \o fileContent
    /\ Len(fileContent) = CHUNK + 1

\* C14: receive loop outcome.  The server reports success exactly when its
\* payload loop ended on a read of zero bytes or on the peer-closed signal,
\* which come only once the peer has closed and every byte it wrote was
\* read; a read that returns bytes appends them to the sink, after what is
\* there, and the loop goes on; any other end of the loop is reported as an
\* error.
C14_ReceiveLoopOutcome ==
    /\ [](/\ ServerSucceeded <=> sEvent \in { "eof", "peer_closed" }
          /\ ServerSucceeded =>
               /\ peerClosed /\ rdPos = Len(sent)
               /\ sink = "closed" /\ sPc \notin ReceivePcs
          /\ (sEvent \in EndEvents \ { "eof", "peer_closed" }) =>
               sReport \in ErrorReports)
    /\ [][sPc = "s_recv" =>
            /\ rdPos' > rdPos =>
                 /\ sinkContent' = sinkContent \o SubSeq(sent, rdPos + 1, rdPos')
                 /\ sink' = "open" /\ sPc' = "s_select" /\ sReport' = "none"
            /\ rdPos' = rdPos => sinkContent' = sinkContent
            /\ ServerSucceeded' => (rdPos' = rdPos /\ Avail = 0 /\ peerClosed)]_vars

C14_Witness ==
    /\ ServerSucceeded /\ sEvent = "peer_closed"
    /\ Len(recvSizes) >= 2 /\ sinkContent = fileContent
    /\ IterationClosed

\* the payload phase of the current session was ended by a read error
PayloadAborted == sinkName # << >> /\ sEvent \in IOErrors

\* the payload bytes the server's reads have returned
PayloadRead == Drop(Prefix(sent, rdPos), HeaderLen + file_name_length)

\* C15: no rollback.  When recv raises in the payload phase (anything but
\* the peer-closed signal), the receive is reported as an error and not as
\* success; the step closes the sink file and leaves its name and bytes as
\* they are, namely the payload bytes read before the error; and for the
\* rest of the session the file is neither removed nor changed.
C15_NoRollback ==
    /\ [](PayloadAborted =>
            /\ sReport \in ErrorReports
            /\ sink = "closed"
            /\ sinkName = file_name
            /\ sinkContent = PayloadRead)
    /\ [][/\ (sPc \in PayloadPcs /\ sEvent' \in IOErrors) =>
               /\ sink' = "closed"
               /\ sinkName' = sinkName /\ sinkContent' = sinkContent
               /\ sReport' \in ErrorReports
          /\ (PayloadAborted /\ sessions' = sessions) =>
               /\ sink' = sink
               /\ sinkName' = sinkName /\ sinkContent' = sinkContent
               /\ sReport' = sReport]_vars

C15_Witness ==
    /\ PayloadAborted /\ IterationClosed
    /\ sReport = "Error while receiving file"
    /\ sink = "closed"
    /\ Len(sinkContent) = CHUNK + 1 /\ Len(sinkContent) < Len(fileContent)

\* C16: close sequence.  A close of the session is reached only through a
\* shutdown attempt, on the client and in the server's finally; whether the
\* attempt succeeded or failed, the next step is the close, it can be taken,
\* and it releases the connection; the handlers around the loop body never
\* end the server, and the server is back at accept with nothing left open.
\* (The connection of a failed handshake is released inside wrap_socket.)
C16_CloseSequence ==
    /\ [](/\ cPc # "c_raised" \/ cExc = "AssertionError"
          /\ sPc # "s_exited"
          /\ cPc = "c_close" =>
               /\ cShut \in { "ok", "failed" } /\ cSecure = "open"
               /\ ENABLED ClientClose
          /\ sPc = "s_close" =>
               /\ sShut \in { "ok", "failed" } /\ secure_client \in sOpen
               /\ ENABLED ServerClose
          /\ sPc = "s_accept" => sOpen = {})
    /\ [][/\ (cPc = "c_finally" /\ cPc' # cPc /\ cSecure # "unbound") =>
               (cPc' = "c_close" /\ cShut' \in { "ok", "failed" })
          /\ (sPc = "s_finally" /\ sPc' # sPc) =>
               (sPc' = "s_close" /\ sShut' \in { "ok", "failed" })
          /\ cPc = "c_close" /\ cPc' # cPc =>
               (cPc' = "c_done" /\ cSecure' = "closed" /\ cRel' = cRel + 1)
          /\ sPc = "s_close" /\ sPc' # sPc =>
               (sPc' = "s_accept" /\ relCount' = [relCount EXCEPT ![secure_client] = @ + 1])
          /\ cRel' # cRel /\ sessions' = sessions => cPc = "c_close"
          /\ relCount' # relCount => sPc \in { "s_close", "s_wrap" }]_vars

C16_Witness ==
    /\ sPc = "s_close" /\ sShut = "failed" /\ secure_client \in sOpen
    /\ cPc = "c_close" /\ cShut = "failed" /\ cExc # "none"
    /\ sEvent \in IOErrors

\* the payload bytes on the connection: what the peer wrote after the header
PayloadWritten == Drop(sent, HeaderLen + file_name_length)

\* C17 as stated: success means complete.  Whenever the server reports
\* success for a session of send_file, the client had written its whole
\* source file and the sink holds the whole source content.
C17_SuccessMeansComplete ==
    (peer = "client" /\ ServerSucceeded) =>
        /\ bytes_sent = Len(fileContent)
        /\ sinkContent = fileContent

\* C17, amended: success means end of stream.  Whenever the server reports
\* success, the peer has closed and the sink holds every payload byte that
\* was written to the connection before that; for send_file this is a
\* prefix of the source content: all of it when the client made all its
\* writes (always when it reports success), and less only when the client
\* failed in the payload, which the server still reports as success.
C17_SuccessMeansEndOfStream ==
    ServerSucceeded =>
        /\ peerClosed
        /\ sinkContent = PayloadWritten
        /\ peer = "client" =>
             /\ IsPrefix(sinkContent, fileContent)
             /\ cPc \in CleanupPcs
             /\ cReport = "File sent successfully" => sinkContent = fileContent
             /\ sinkContent # fileContent =>
                  (cExc \in SendErrors /\ cReport \in ClientFailureReports)

C17_Witness ==
    /\ peer = "client" /\ ServerSucceeded /\ IterationClosed
    /\ cExc \in SendErrors /\ cPc = "c_done"
    /\ sinkContent # << >> /\ Len(sinkContent) < Len(fileContent)

\* the header of the current session was fully received
HeaderReceived == sPc \in { "s_open", "s_select", "s_recv" } \/ sink # "none"

\* C18: prefix invariant.  Once the header of a session was received, the
\* bytes in the server's sink are a prefix of the payload bytes written to
\* the connection so far, hence of the source content for send_file: the
\* bytes after the 4 + N header bytes, in their order, from the first one on,
\* each once, as many as the payload reads returned; this holds between and
\* during partial reads, want-read retries and expired waits.
C18_PrefixInvariant ==
    HeaderReceived =>
        /\ rdPos >= HeaderLen + file_name_length
        /\ Len(sinkContent) = rdPos - (HeaderLen + file_name_length)
        /\ Len(sinkContent) <= Len(PayloadWritten)
        /\ \A i \in 1..Len(sinkContent) :
              sinkContent[i] = sent[HeaderLen + file_name_length + i]
        /\ IsPrefix(sinkContent, PayloadWritten)
        /\ peer = "client" =>
              /\ IsPrefix(PayloadWritten, fileContent)
              /\ IsPrefix(sinkContent, fileContent)
              /\ Len(PayloadWritten) >= bytes_sent

C18_Witness ==
    /\ peer = "client" /\ sPc = "s_select" /\ sink = "open"
    /\ retries = MaxRetries
    /\ recvSizes = << 1 >>
    /\ Len(PayloadWritten) = CHUNK + 1
    /\ cPc = "c_loop"

\* the server is back at accept with the connection of the iteration released
TornDown == sPc = "s_accept" /\ sOpen = {}

\* the peer is connected and silent: nothing to read, its end not closed
Silent == Avail = 0 /\ ~peerClosed

\* C19: session liveness.  With the server scheduled fairly, an accepted
\* connection whose peer has closed its end is torn down and the server is
\* back at accept; so is one still in the handshake or the header, where a
\* recv ends in data, a close or an error within the socket timeout, and one
\* whose receive has ended in an error.  In the payload loop a connected and
\* silent peer is not timed out: the expiry of the select wait, any number of
\* times, leaves the session in the loop and untouched, and the loop is left
\* only by a recv.
C19_SessionLiveness ==
    /\ (sPc # "s_accept" /\ peerClosed) ~> TornDown
    /\ (sPc \in { "s_wrap", "s_len", "s_name", "s_open" }) ~>
          (TornDown \/ sPc = "s_select")
    /\ (sPc \in { "s_finally", "s_close" }) ~> TornDown
    /\ [][(sPc = "s_select" /\ Silent) =>
            /\ sPc' \in PayloadPcs
            /\ sOpen' = sOpen /\ sink' = sink /\ sReport' = sReport
            /\ sEvent' = sEvent]_vars
    /\ [][(sPc \in PayloadPcs /\ sPc' \notin PayloadPcs) => sPc = "s_recv"]_vars

C19_Witness ==
    /\ sPc = "s_select" /\ Silent /\ polls = MaxPolls
    /\ Len(sinkContent) = CHUNK /\ cPc = "c_loop"
    /\ secure_client \in sOpen

\* send_file has returned or was left by an exception
ClientReturned == peer = "client" /\ cPc \in { "c_done", "c_raised" }

\* C20: no client socket leak.  When send_file has returned, on whatever
\* path, no socket it created is still open: the raw socket was taken over
\* by the secure socket or closed, and the secure socket is closed.
C20_NoClientSocketLeak ==
    ClientReturned => (cRaw # "open" /\ cSecure # "open")

====
